---- MODULE Spec2Model ----
(***************************************************************************)
(* Count-min sketch with a bounded top-k tracker, as implemented by the    *)
(* class Sketch and the function CM_top_users of                           *)
(* count-min-101/CountMinSketch.ipynb.                                     *)
(*                                                                         *)
(* Representation choices                                                  *)
(*  - keys are the integers 1..NumKeys; key i stands for the i-th string   *)
(*    of an alphabetically ordered list ("A", "B", "C", ...), so that the  *)
(*    integer order is the string order Python uses when two               *)
(*    [estimate, key] lists tie on the estimate;                           *)
(*  - delta and epsilon are fixed-point numbers in tenths (5 is 0.5);      *)
(*  - a pair [estimate, key] is the tuple <<estimate, key>>;               *)
(*  - Python lists are objects: `alias` is the set of keys whose heap      *)
(*    entry is the very list object stored in top_k (an assignment         *)
(*    through top_k is then seen by the heap);                             *)
(*  - counters are numpy int32 and wrap around.                            *)
(***************************************************************************)
EXTENDS Integers, Sequences, FiniteSets, TLC

\* ------------------------------------------------------------------ bounds
NumKeys    == 3      \* distinct keys of the stream
MaxK       == 2      \* largest k tried at construction
MaxUpdates == 5      \* length of a stream of increments of 1
MaxWide    == 3      \* length of a stream of increments of either size
MaxBig     == 2      \* how many large increments such a stream holds at most
BigInc     == 1073741824   \* the one large increment tried besides 1 (2^30)

\* --------------------------------------------------------------- constants
BIG_PRIME  == 5      \* stands for 9223372036854775783, scaled to the model
One        == 10     \* the number 1.0 in tenths
E_NUM      == 272    \* np.exp(1) = E_NUM / E_DEN, rounded to 2.72
E_DEN      == 100
MaxInt32   == 2147483647   \* largest value of dtype int32
top_n      == 10     \* default of CM_top_users

Keys       == 1..NumKeys
KeyName(key) == IF key <= 5 THEN <<"A", "B", "C", "D", "E">>[key] ELSE "Z"
Increments == {1, BigInc}

\* the arguments (delta, epsilon, k) tried at construction, in tenths:
\* one argument out of range at a time, and the sketches 1 x 6, 1 x 4, 2 x 4
OutOfRange == {-1, 0, One, One + 1}
Arguments  ==
    {<<delta, 5, 1>> : delta \in OutOfRange}
        \cup {<<5, epsilon, 1>> : epsilon \in OutOfRange}
        \cup {<<5, 5, 0>>, <<5, 5, -1>>, <<0, 0, 0>>}
        \cup {<<5, 5, kk>> : kk \in 1..MaxK}
        \cup {<<5, 9, kk>> : kk \in 1..MaxK}
        \cup {<<2, 9, kk>> : kk \in 1..MaxK}

\* ------------------------------------------------------------- arithmetic
Abs(x) == IF x < 0 THEN -x ELSE x

Min(a, b) == IF a <= b THEN a ELSE b

\* ceil(num / den) for den > 0
CeilDiv(num, den) == (num + den - 1) \div den

RECURSIVE Pow(_, _)
Pow(b, n) == IF n = 0 THEN 1 ELSE b * Pow(b, n - 1)

\* int32 addition of a positive increment: wraps to the negative range
Add32(c, increment) ==
    IF c > MaxInt32 - increment
    THEN ((c - MaxInt32) - 1) + ((increment - MaxInt32) - 1)
    ELSE c + increment

\* ---------------------------------------------------------- hash functions
\* random.randrange(0, BIG_PRIME - 1): the stop value is excluded
random_parameter == 0..(BIG_PRIME - 2)

\* hash(key) of a string: some integer of either sign, fixed for the run
Hash(key) == IF key % 2 = 1 THEN -key ELSE key

\* lambda x: (a * x + b) % BIG_PRIME % self.w
hash_function(ab, x, width) == ((ab[1] * x + ab[2]) % BIG_PRIME) % width

\* column = hash_function(abs(hash(key)))
Column(hfs, width, row, key) == hash_function(hfs[row], Abs(Hash(key)), width)

\* -------------------------------------------------------------- parameters
\* int(np.ceil(np.exp(1) / epsilon)), epsilon in tenths
Width(epsilon) == CeilDiv(E_NUM * One, E_DEN * epsilon)

\* int(np.ceil(np.log(1 / delta))): the least n with e^n >= 1 / delta
Depth(delta) ==
    CHOOSE n \in 0..3 :
        /\ delta * Pow(E_NUM, n) >= One * Pow(E_DEN, n)
        /\ \A m \in 0..(n - 1) : delta * Pow(E_NUM, m) < One * Pow(E_DEN, m)

\* ------------------------------------------------------------------- heapq
\* Python compares two lists [estimate, key] lexicographically
PairLess(p, q) == p[1] < q[1] \/ (p[1] = q[1] /\ p[2] < q[2])

\* heapq._siftdown(heap, startpos, pos); positions are 1-based here
RECURSIVE SiftDownLoop(_, _, _, _)
SiftDownLoop(heap, startpos, pos, newitem) ==
    IF pos > startpos /\ PairLess(newitem, heap[pos \div 2])
    THEN SiftDownLoop([heap EXCEPT ![pos] = heap[pos \div 2]],
                      startpos, pos \div 2, newitem)
    ELSE [heap EXCEPT ![pos] = newitem]

siftdown(heap, startpos, pos) == SiftDownLoop(heap, startpos, pos, heap[pos])

\* heapq._siftup(heap, pos): bubble the smaller child up to a leaf, then
\* sift the displaced item down from there
RECURSIVE SiftUpLoop(_, _, _, _)
SiftUpLoop(heap, startpos, pos, newitem) ==
    LET childpos == 2 * pos
        rightpos == childpos + 1
        child    == IF rightpos <= Len(heap)
                       /\ ~PairLess(heap[childpos], heap[rightpos])
                    THEN rightpos ELSE childpos
    IN  IF childpos <= Len(heap)
        THEN SiftUpLoop([heap EXCEPT ![pos] = heap[child]],
                        startpos, child, newitem)
        ELSE siftdown([heap EXCEPT ![pos] = newitem], startpos, pos)

siftup(heap, pos) == SiftUpLoop(heap, pos, pos, heap[pos])

\* heapq.heappush(heap, item)
heappush(heap, item) == siftdown(Append(heap, item), 1, Len(heap) + 1)

\* variant: the list is left in the order it has
heapify_skip(heap) == heap

\* heapq.heapify(x): for i in reversed(range(n // 2)): _siftup(x, i)
RECURSIVE HeapifyFrom(_, _)
HeapifyFrom(heap, i) ==
    IF i < 1 THEN heap ELSE HeapifyFrom(siftup(heap, i), i - 1)

heapify(heap) == HeapifyFrom(heap, Len(heap) \div 2)

\* variant: the item is handed back whatever the heap holds
heappushpop_keep(heap, item) ==
    [heap |-> heap, item |-> item, pushed |-> FALSE]

\* heapq.heappushpop(heap, item): the heap after the call, the item
\* returned, and whether `item` itself went into the heap
heappushpop(heap, item) ==
    IF heap # <<>> /\ PairLess(heap[1], item)
    THEN [heap |-> siftup([heap EXCEPT ![1] = item], 1),
          item |-> heap[1], pushed |-> TRUE]
    ELSE [heap |-> heap, item |-> item, pushed |-> FALSE]

IsHeap(heap) ==
    \A i \in 2..Len(heap) : ~PairLess(heap[i], heap[i \div 2])

HeapKeys(heap) == {heap[i][2] : i \in 1..Len(heap)}

\* ------------------------------------------------------------------- state
VARIABLES
    status,          \* "new": no Sketch yet; "ready": constructed; "error"
    args,            \* the (delta, epsilon, k) handed to Sketch(...)
    w, d, k,         \* self.w, self.d, self.k
    hash_functions,  \* self.hash_functions: row -> <<a, b>>
    count,           \* self.count: row -> column -> int32
    heap,            \* self.heap: sequence of <<estimate, key>>
    top_k,           \* self.top_k: key -> <<estimate, key>>
    alias,           \* keys whose heap entry is the list object of top_k
    err,             \* the exception raised so far, or "none"
    branch,          \* the branch the last update_heap call took
    nUnit, nBig      \* per key: how many increments of 1 and of BigInc

vars == <<status, args, w, d, k, hash_functions, count, heap, top_k, alias,
          err, branch, nUnit, nBig>>

sketch == <<w, d, k, hash_functions, count, heap, top_k, alias>>

Unset == "unset"

\* sys.maxsize: the start value of the minimum in get; any value that no
\* counter exceeds behaves alike
sys_maxsize == MaxInt32

Rows    == 1..d
Columns == 0..(w - 1)

\* ------------------------------------------------------- Sketch operations
\* Sketch.get on a given grid
RECURSIVE GetLoop(_, _, _, _, _, _)
GetLoop(cnt, hfs, width, row, key, value) ==
    IF row > Len(hfs) THEN value
    ELSE GetLoop(cnt, hfs, width, row + 1, key,
                 Min(cnt[row][Column(hfs, width, row, key)], value))

GetOn(cnt, hfs, width, key) == GetLoop(cnt, hfs, width, 1, key, sys_maxsize)

get(key) == GetOn(count, hash_functions, w, key)

\* variant: only the counters that hold the key's current minimum grow
UpdateGrid_conservative(cnt, hfs, width, key, increment) ==
    [row \in DOMAIN cnt |->
        [column \in DOMAIN cnt[row] |->
            IF column = Column(hfs, width, row, key)
               /\ cnt[row][column] = GetOn(cnt, hfs, width, key)
            THEN Add32(cnt[row][column], increment)
            ELSE cnt[row][column]]]

\* the loop of Sketch.update: one counter per row takes the increment
UpdateGrid(cnt, hfs, width, key, increment) ==
    [row \in DOMAIN cnt |->
        [column \in DOMAIN cnt[row] |->
            IF column = Column(hfs, width, row, key)
            THEN Add32(cnt[row][column], increment)
            ELSE cnt[row][column]]]

\* del self.top_k[key]
Del(tk, key) == [x \in (DOMAIN tk) \ {key} |-> tk[x]]

\* self.top_k[key] = pair
Put(tk, key, pair) ==
    [x \in (DOMAIN tk) \cup {key} |-> IF x = key THEN pair ELSE tk[x]]

\* old_pair[0] = estimate, seen through the heap when the object is shared
SetEstimate(hp, al, key, estimate) ==
    [i \in 1..Len(hp) |->
        IF hp[i][2] = key /\ key \in al THEN <<estimate, key>> ELSE hp[i]]

\* variant: every estimate passes the test
Admits_always(hp, estimate) == TRUE

\* not self.heap or estimate >= self.heap[0][0]
Admits(hp, estimate) == hp = <<>> \/ estimate >= hp[1][1]

\* variant: the eviction deletes the key that was just observed
DelKey_observed(new_pair, old_pair) == new_pair[2]

\* the key of `del self.top_k[old_pair[1]]`
DelKey(new_pair, old_pair) == old_pair[2]

\* Sketch.update_heap, given estimate = self.get(key)
update_heap(hp, tk, al, kk, key, estimate) ==
    IF Admits(hp, estimate)
    THEN IF key \in DOMAIN tk
         THEN [heap  |-> heapify(SetEstimate(hp, al, key, estimate)),
               top_k |-> Put(tk, key, <<estimate, key>>),
               alias |-> al, err |-> "none", branch |-> "refresh"]
         ELSE IF Cardinality(DOMAIN tk) < kk
              THEN \* two distinct list objects with the same contents
                   [heap  |-> heappush(hp, <<estimate, key>>),
                    top_k |-> Put(tk, key, <<estimate, key>>),
                    alias |-> al \ {key}, err |-> "none", branch |-> "push"]
              ELSE LET new_pair == <<estimate, key>>
                       pp       == heappushpop(hp, new_pair)
                       old_pair == pp.item
                       al1      == IF pp.pushed
                                   THEN (al \ {old_pair[2]}) \cup {key}
                                   ELSE al \ {key}
                   IN  IF new_pair[2] # old_pair[2]
                       THEN IF DelKey(new_pair, old_pair) \in DOMAIN tk
                            THEN [heap  |-> pp.heap,
                                  top_k |-> Put(Del(tk, DelKey(new_pair,
                                                               old_pair)),
                                                key, new_pair),
                                  alias |-> al1, err |-> "none",
                                  branch |-> "evict"]
                            ELSE [heap  |-> pp.heap, top_k |-> tk,
                                  alias |-> al1, err |-> "KeyError",
                                  branch |-> "evict"]
                       ELSE [heap  |-> pp.heap,
                             top_k |-> Put(tk, key, new_pair),
                             alias |-> al1, err |-> "none",
                             branch |-> "same"]
    ELSE [heap |-> hp, top_k |-> tk, alias |-> al, err |-> "none",
          branch |-> "discard"]

\* ----------------------------------------------------------------- actions
Init ==
    /\ status = "new"
    /\ args = Unset
    /\ w = Unset /\ d = Unset /\ k = Unset
    /\ hash_functions = Unset
    /\ count = Unset
    /\ heap = Unset /\ top_k = Unset /\ alias = Unset
    /\ err = "none"
    /\ branch = Unset
    /\ nUnit = [key \in Keys |-> 0]
    /\ nBig = [key \in Keys |-> 0]

\* variant: the check of k lets k = 0 through
Validate_k0(delta, epsilon, kk) ==
    IF delta <= 0 \/ delta >= One THEN "ValueError"
    ELSE IF epsilon <= 0 \/ epsilon >= One THEN "ValueError"
    ELSE IF kk < 0 THEN "ValueError"
    ELSE "none"

\* the first failing check of Sketch.__init__, or "none"
Validate(delta, epsilon, kk) ==
    IF delta <= 0 \/ delta >= One THEN "ValueError"
    ELSE IF epsilon <= 0 \/ epsilon >= One THEN "ValueError"
    ELSE IF kk < 1 THEN "ValueError"
    ELSE "none"

\* Sketch.__init__(delta, epsilon, k)
Construct(delta, epsilon, kk) ==
    /\ status = "new"
    /\ args' = <<delta, epsilon, kk>>
    /\ IF Validate(delta, epsilon, kk) # "none"
       THEN /\ status' = "error"
            /\ err' = Validate(delta, epsilon, kk)
            /\ UNCHANGED sketch
       ELSE /\ status' = "ready"
            /\ err' = "none"
            /\ w' = Width(epsilon)
            /\ d' = Depth(delta)
            /\ k' = kk
            /\ hash_functions' \in
                   [1..Depth(delta) -> random_parameter \X random_parameter]
            /\ count' = [row \in 1..Depth(delta) |->
                            [column \in 0..(Width(epsilon) - 1) |-> 0]]
            /\ heap' = <<>>
            /\ top_k' = <<>>
            /\ alias' = {}
    /\ UNCHANGED <<branch, nUnit, nBig>>

Updates == LET RECURSIVE Sum(_)
               Sum(n) == IF n = 0 THEN 0 ELSE nUnit[n] + nBig[n] + Sum(n - 1)
           IN  Sum(NumKeys)

\* Sketch.update(key, increment)
update(key, increment) ==
    /\ status = "ready"
    /\ LET cnt == UpdateGrid(count, hash_functions, w, key, increment)
           uh  == update_heap(heap, top_k, alias, k, key,
                              GetOn(cnt, hash_functions, w, key))
       IN  /\ count' = cnt
           /\ heap' = uh.heap
           /\ top_k' = uh.top_k
           /\ alias' = uh.alias
           /\ err' = IF err = "none" THEN uh.err ELSE err
           /\ branch' = uh.branch
    /\ nUnit' = IF increment = 1 THEN [nUnit EXCEPT ![key] = @ + 1] ELSE nUnit
    /\ nBig' = IF increment = 1 THEN nBig ELSE [nBig EXCEPT ![key] = @ + 1]
    /\ UNCHANGED <<status, args, w, d, k, hash_functions>>

NewSketch == \E a \in Arguments : Construct(a[1], a[2], a[3])

\* one pass of the loop of CM_top_users: s.update(user_name, 1)
Observe == /\ Updates < MaxUpdates
           /\ \E key \in Keys : update(key, 1)

\* update with any of the increments
Bigs == LET RECURSIVE Sum(_)
            Sum(n) == IF n = 0 THEN 0 ELSE nBig[n] + Sum(n - 1)
        IN  Sum(NumKeys)

UpdateAny == /\ Updates < MaxWide
             /\ \E key \in Keys, increment \in Increments :
                    /\ increment = 1 \/ Bigs < MaxBig
                    /\ update(key, increment)

\* the stream "A", "B", "A", "C", "A", "B" fed in this order
Scenario == <<1, 2, 1, 3, 1, 2>>

Replay == /\ Updates < Len(Scenario)
          /\ update(Scenario[Updates + 1], 1)

Next == NewSketch \/ Observe

Spec == Init /\ [][Next]_vars

NextW == NewSketch \/ UpdateAny

SpecW == Init /\ [][NextW]_vars

NextScenario == NewSketch \/ Replay

SpecScenario == Init /\ [][NextScenario]_vars

\* ---------------------------------------------------------------- snapshot
Values(tk) == {tk[key] : key \in DOMAIN tk}

\* sorted(pairs): ascending in the list order
RECURSIVE sorted(_)
sorted(S) ==
    IF S = {} THEN <<>>
    ELSE LET least == CHOOSE p \in S : \A q \in S : q = p \/ PairLess(p, q)
         IN  <<least>> \o sorted(S \ {least})

RECURSIVE reversed(_)
reversed(s) == IF s = <<>> THEN <<>> ELSE Append(reversed(Tail(s)), Head(s))

\* variant: the sorted values are not reversed
snapshot_ascending(tk, n) ==
    LET values == sorted(Values(tk))
    IN  [i \in 1..Min(n, Len(values)) |-> <<values[i][2], values[i][1]>>]

\* the result list of CM_top_users, as (key, estimate) pairs
snapshot(tk, n) ==
    LET values == reversed(sorted(Values(tk)))
    IN  [i \in 1..Min(n, Len(values)) |-> <<values[i][2], values[i][1]>>]

Snapshot == snapshot(top_k, top_n)

\* ------------------------------------------------------------------ claims
Ready == status = "ready"

TopKeys == DOMAIN top_k

\* no two keys share a counter in any row
NoCollisions ==
    \A row \in Rows : \A key1, key2 \in Keys :
        key1 # key2 =>
            Column(hash_functions, w, row, key1)
                # Column(hash_functions, w, row, key2)

\* C1: in every reachable state of a constructed Sketch fed update(key, 1)
\* calls, top_k holds at most k keys and the heap at most k entries.
C1_BoundedCandidates ==
    Ready => (Cardinality(TopKeys) <= k /\ Len(heap) <= k)

\* C2: in every reachable state the keys of top_k are the keys of the heap,
\* and each of them has exactly one heap entry.
C2_KeysInSync ==
    Ready => /\ TopKeys = HeapKeys(heap)
             /\ \A key \in TopKeys :
                    Cardinality({i \in 1..Len(heap) : heap[i][2] = key}) = 1

\* value >= bigs * BigInc + units, where the right side may exceed what an
\* int32 holds (Python sums the increments without a bound)
AtLeast(value, bigs, units) ==
    /\ bigs <= MaxInt32 \div BigInc
    /\ value >= bigs * BigInc + units

\* C3: for every key, get(key) is at every point of the stream at least the
\* sum of the increments applied so far to that key.
C3_OneSidedError ==
    Ready => \A key \in Keys : AtLeast(get(key), nBig[key], nUnit[key])

\* the key observed far more often than the others ("A"), and its stream: every
\* other key once, the heavy key all the remaining times
Heavy == CHOOSE key \in Keys : \A other \in Keys : key <= other

HeavyStream ==
    [key \in Keys |-> IF key = Heavy THEN MaxUpdates - (NumKeys - 1) ELSE 1]

\* C4: once a stream in which one key is observed far more often than each
\* of the other keys (more distinct keys than k, no collisions) has been
\* ingested, in whatever order, the snapshot has that key as first entry.
C4_HeavyHitterTop ==
    (Ready /\ NoCollisions /\ k < NumKeys /\ nUnit = HeavyStream)
        => (Len(Snapshot) >= 1 /\ Snapshot[1][1] = Heavy)

\* C5: an update(key, 1) for a key that is already in top_k leaves the
\* estimate cached for that key in top_k equal to get(key).
C5_CachedRefresh ==
    [][\A key \in Keys :
          (Ready /\ key \in TopKeys /\ nUnit'[key] = nUnit[key] + 1)
              => (key \in TopKeys' /\ top_k'[key][1] = get(key)')]_vars

\* C6: across an update with a positive increment no get(key) decreases,
\* for the key updated and for every other key.
C6_Monotone ==
    [][Ready => \A key \in Keys : get(key)' >= get(key)]_vars

\* C7: on a constructed Sketch no update(key, 1) raises: the eviction never
\* deletes a key absent from top_k and every column index lies in [0, w).
C7_Total ==
    Ready => /\ err = "none"
             /\ \A row \in Rows, key \in Keys :
                    Column(hash_functions, w, row, key) \in Columns

C7_Witness == Ready /\ branch = "evict" /\ err = "none"

\* the arguments the constructor has to refuse
Refused(a) ==
    \/ a[1] <= 0 \/ a[1] >= One
    \/ a[2] <= 0 \/ a[2] >= One
    \/ a[3] < 1

\* C8: a construction with delta or epsilon outside (0, 1) or k < 1 fails
\* with the invalid-parameter error before any part of the Sketch exists;
\* Sketch(0.5, 0.5, 1) succeeds with a zero grid, an empty heap and mapping.
C8_ParameterValidation ==
    status # "new" =>
        /\ Refused(args) =>
              /\ status = "error" /\ err = "ValueError"
              /\ \A i \in 1..Len(sketch) : sketch[i] = Unset
        /\ args = <<5, 5, 1>> =>
              /\ Ready
              /\ Updates = 0 =>
                    /\ \A row \in Rows, column \in Columns :
                           count[row][column] = 0
                    /\ heap = <<>> /\ TopKeys = {}

C8_Witness == status = "error" /\ args = <<5, 5, 0>>

\* C9: with k = 2 and no collisions, the stream A, B, A, C, A, B yields the
\* snapshot [("A", 3), ("B", 2)].
C9_Scenario ==
    (Ready /\ k = 2 /\ NoCollisions /\ Updates = Len(Scenario))
        => Snapshot = <<<<1, 3>>, <<2, 2>>>>

C9_Witness == Ready /\ k = 2 /\ NoCollisions /\ Updates = Len(Scenario)

\* C10: the snapshot lists each member of top_k at most once and in order
\* of non-increasing cached estimate.
C10_SnapshotOrdered ==
    Ready =>
        /\ \A i, j \in 1..Len(Snapshot) :
               i # j => Snapshot[i][1] # Snapshot[j][1]
        /\ \A i \in 1..Len(Snapshot) :
               /\ Snapshot[i][1] \in TopKeys
               /\ Snapshot[i][2] = top_k[Snapshot[i][1]][1]
        /\ \A i \in 1..(Len(Snapshot) - 1) :
               Snapshot[i][2] >= Snapshot[i + 1][2]

C10_Witness ==
    /\ Ready
    /\ Len(Snapshot) >= 2
    /\ Snapshot[1][2] > Snapshot[2][2]

\* a step of update(key, increment) for some key
Updated == Ready /\ Updates' = Updates + 1

\* the heap entry of a key that has one
HeapEntry(key) == heap[CHOOSE i \in 1..Len(heap) : heap[i][2] = key]

\* C12: when an update admits a new key into a full candidate set, the
\* member removed from top_k has a cached estimate that is minimal among
\* the cached estimates of all members before the call.
C12_EvictsWeakest ==
    [][Updated =>
          \A removed \in TopKeys \ TopKeys' :
              \A member \in TopKeys :
                  top_k[member][1] >= top_k[removed][1]]_vars

\* C13: when the set is full, the observed key is no member and the
\* push-then-pop hands back the pair that was just pushed, the keys of top_k
\* after the call are the keys before the call.
C13_NoOpKeepsMembers ==
    [][(Updated /\ branch' = "same") => TopKeys' = TopKeys]_vars

\* C14: in every reachable state the estimate in the heap entry of a key
\* that is in the heap and in top_k equals the estimate cached in top_k.
C14_SamePairs ==
    Ready => \A key \in TopKeys \cap HeapKeys(heap) :
                 HeapEntry(key)[1] = top_k[key][1]

\* C15: an update of a key outside top_k whose estimate after the grid
\* update is below heap[0][0] changes the counter grid only: the heap and
\* top_k stay as they were.
C15_DiscardFrame ==
    [][\A key \in Keys :
          (/\ Updated /\ nUnit'[key] = nUnit[key] + 1
           /\ heap # <<>> /\ key \notin TopKeys
           /\ get(key)' < heap[1][1])
              => (heap' = heap /\ top_k' = top_k /\ count' # count)]_vars

\* a discard has just happened, and of a key outside top_k: every member
\* has an estimate that would have passed the test
C15_Witness ==
    /\ Ready /\ branch = "discard" /\ heap # <<>>
    /\ \A member \in TopKeys : get(member) >= heap[1][1]
    /\ \E key \in Keys \ TopKeys : nUnit[key] > 0 /\ get(key) < heap[1][1]

\* the zero grid of the sketch
ZeroGrid == [row \in Rows |-> [column \in Columns |-> 0]]

\* a fresh grid fed `counts[key]` times each key, key after key
RECURSIVE Ingest(_, _, _)
Ingest(cnt, counts, key) ==
    IF key > NumKeys THEN cnt
    ELSE IF counts[key] = 0 THEN Ingest(cnt, counts, key + 1)
    ELSE Ingest(UpdateGrid(cnt, hash_functions, w, key, 1),
                [counts EXCEPT ![key] = @ - 1], key)

\* element-wise sum of two grids
MergeGrids(g1, g2) ==
    [row \in Rows |-> [column \in Columns |-> g1[row][column] + g2[row][column]]]

\* the ways to cut the keys fed so far into a first shard (the rest is the
\* second)
RECURSIVE ShardsUpTo(_)
ShardsUpTo(key) ==
    IF key = 0 THEN {<<>>}
    ELSE {Append(s, n) : s \in ShardsUpTo(key - 1), n \in 0..nUnit[key]}

Shards == ShardsUpTo(NumKeys)

\* C16: the grid depends on the multiset of keys fed, not on their order,
\* and equals the element-wise sum of the grids of any two shards of the
\* stream, each fed to a fresh sketch with the same hash functions (get
\* reads the grid only, so it agrees on equal grids).
C16_GridMerge ==
    Ready =>
        \A s \in Shards :
            LET rest == [key \in Keys |-> nUnit[key] - s[key]]
            IN  MergeGrids(Ingest(ZeroGrid, s, 1),
                           Ingest(ZeroGrid, rest, 1)) = count

\* two keys that share a counter have both been fed, the larger key first
\* or last
C16_Witness ==
    /\ Ready
    /\ \E key1, key2 \in Keys :
          /\ key1 # key2 /\ nUnit[key1] > 0 /\ nUnit[key2] > 1
          /\ \E row \in Rows : Column(hash_functions, w, row, key1)
                                   = Column(hash_functions, w, row, key2)

\* C17: no update with a positive increment leaves a counter smaller than
\* before or negative, unless it fails with a counter-overflow error.
C17_NoSilentWrap ==
    [][Updated =>
          \/ err' = "CounterOverflow"
          \/ \A row \in Rows, column \in Columns :
                 /\ count'[row][column] >= count[row][column]
                 /\ count'[row][column] >= 0]_vars

\* C18: the parameters a and b of every row come from the whole range
\* 0..P-1: the values random_parameter() can return are exactly those.
C18_ParameterRange ==
    Ready =>
        /\ \A row \in Rows :
               /\ hash_functions[row][1] \in 0..(BIG_PRIME - 1)
               /\ hash_functions[row][2] \in 0..(BIG_PRIME - 1)
        /\ random_parameter = 0..(BIG_PRIME - 1)

\* the digits of an int32 in base BigInc (the high digit may be negative)
High(value) == value \div BigInc

Low(value) == value % BigInc

RECURSIVE SumHigh(_, _)
SumHigh(row, column) ==
    IF column < 0 THEN 0
    ELSE High(count[row][column]) + SumHigh(row, column - 1)

RECURSIVE SumLow(_, _)
SumLow(row, column) ==
    IF column < 0 THEN 0
    ELSE Low(count[row][column]) + SumLow(row, column - 1)

\* C19: the counters of every row sum to the total of all increments
\* applied so far (Bigs times BigInc plus the increments of 1), and no
\* get(key) exceeds that total.
C19_RowSum ==
    Ready =>
        /\ \A row \in Rows :
               /\ SumHigh(row, w - 1) = Bigs
               /\ SumLow(row, w - 1) = Updates - Bigs
        /\ \A key \in Keys :
               \/ High(get(key)) < Bigs
               \/ High(get(key)) = Bigs /\ Low(get(key)) <= Updates - Bigs

\* C20: every key of the heap is a key of top_k, no key has two heap
\* entries, and the heap is in min-heap order on its stored pairs.
C20_HeapContained ==
    Ready =>
        /\ HeapKeys(heap) \subseteq TopKeys
        /\ \A i, j \in 1..Len(heap) : i # j => heap[i][2] # heap[j][2]
        /\ IsHeap(heap)

\* a refresh has just reordered a heap of two shared pairs
C20_Witness ==
    /\ Ready /\ branch = "refresh"
    /\ Len(heap) >= 2
    /\ HeapKeys(heap) \subseteq alias
    /\ heap[1][1] > 1
====
